---- MODULE Spec2Model ----
(***************************************************************************)
(* Model of src/download_and_unzip_db.py: the release-resolution, fetch    *)
(* and extraction pipeline of the tipitaka translation database.           *)
(*                                                                         *)
(* The file system holds one cache file (the zip at                        *)
(* pth.tipitaka_translation_db_tarball) and one destination directory      *)
(* (pth.tipitaka_translation_db_dir).  A file's bytes are modelled as a    *)
(* sequence of blocks: local entry records followed by the end-of-central- *)
(* directory record that zipfile.ZipFile needs in order to open the file.  *)
(* Every invocation of main() is a run; a run is split at its blocking     *)
(* calls (exists, the API request, the download request, open, each chunk  *)
(* of iter_content with its write and its progress update, unzip_file).    *)
(***************************************************************************)
EXTENDS Integers, Sequences, FiniteSets, TLC

VARIABLES
    cache,          \* the cache file: whether it exists, and its content
    dirExists,      \* whether pth.tipitaka_translation_db_dir exists
    destFiles,      \* files below the destination directory: set of [path, data]
    outside,        \* paths written outside the destination directory
    pc,             \* position of each run of main()
    hit,            \* branch taken at line 49 by each run
    download_url,   \* download_url of each run (None until resolved)
    stream,         \* chunks response.iter_content has still to deliver
    pos,            \* offset of the open file object f
    progress,       \* completed amount of the rich progress task
    total_size,     \* total_size read from the content-length header
    calls,          \* number of calls each run made, per kind
    origin,         \* error first raised in each run ("none" if none)
    report,         \* lines each run printed with pr.error
    result,         \* value main() returned to its caller
    release_data,   \* API response handed to download_latest_release on its own
    resolved        \* what download_latest_release returned for release_data

vars == <<cache, dirExists, destFiles, outside, pc, hit, download_url, stream,
          pos, progress, total_size, calls, origin, report, result,
          release_data, resolved>>

----------------------------------------------------------------------------
(* Bounds *)

MaxRuns == 2
MaxAssets == 2
MaxChunks == 3
MaxEntries == 2
MaxExtracts == 2

Runs == 1..MaxRuns

----------------------------------------------------------------------------
(* Values *)

NoFile == [exists |-> FALSE, data |-> <<>>]
File(d) == [exists |-> TRUE, data |-> d]
None == "None"
Unset == "unset"

TargetName == "tipitaka-translation-data.db.zip"

AssetNames == {TargetName, "TIPITAKA-TRANSLATION-DATA.DB.ZIP",
               "tipitaka-translation-data.db", "other.zip"}

Urls == {"u1", "u2"}

Assets == [name : AssetNames, browser_download_url : Urls]

AssetLists == UNION {[1..n -> Assets] : n \in 0..MaxAssets}

\* What requests.get(api_url) can bring back.
ApiResponses ==
    {[kind |-> k, assets |-> <<>>] : k \in {"transport", "status", "badjson", "noassets"}}
    \cup {[kind |-> "ok", assets |-> a] : a \in AssetLists}

NoResponse == [kind |-> "none", assets |-> <<>>]
Unresolved == [url |-> None, err |-> Unset]

Entry(n, d) == [kind |-> "entry", name |-> n, data |-> d, size |-> 2]
EOCD == [kind |-> "eocd", name |-> <<>>, data |-> "", size |-> 1]
Junk == [kind |-> "junk", name |-> <<>>, data |-> "", size |-> 1]

\* The asset published at each download URL.
PayloadOf(u) ==
    IF u = "u1"
    THEN <<Entry(<<"a", "b.txt">>, "hello"), Entry(<<"c.txt">>, "world"), EOCD>>
    ELSE <<Entry(<<"..", "escape.txt">>, "evil"), Entry(<<"c.txt">>, "moon"), EOCD>>

Payloads == {PayloadOf(u) : u \in Urls}

\* The ways a body s arrives in at most MaxChunks chunks; an empty chunk is a
\* keep-alive, which only comes while data is still due.
Chunkings(s) ==
    LET n == Len(s)
        Cuts(k) == {c \in [0..k -> 0..n] :
                        /\ c[0] = 0
                        /\ c[k] = n
                        /\ \A i \in 1..k : c[i-1] <= c[i]
                        /\ c[k-1] < n}
    IN  UNION {{[i \in 1..k |-> SubSeq(s, c[i-1] + 1, c[i])] : c \in Cuts(k)}
                    : k \in 1..MaxChunks}

RECURSIVE Bytes(_)
Bytes(chunk) == IF chunk = <<>> THEN 0 ELSE Head(chunk).size + Bytes(Tail(chunk))

----------------------------------------------------------------------------
(* download_latest_release, lines 15-42 *)

\* Lines 30-33: the first asset whose name is exactly the wanted one.
RECURSIVE FindAsset(_)
FindAssetAnyCase(assets) ==
    IF assets = <<>> THEN None
    ELSE IF Head(assets).name \in {TargetName, "TIPITAKA-TRANSLATION-DATA.DB.ZIP"}
         THEN Head(assets).browser_download_url
         ELSE FindAsset(Tail(assets))

FindAsset(assets) ==
    IF assets = <<>> THEN None
    ELSE IF Head(assets).name = TargetName
         THEN Head(assets).browser_download_url
         ELSE FindAsset(Tail(assets))

\* The exception raised inside the try block, "none" if none is raised:
\* requests.get / raise_for_status / response.json() fail with a network-side
\* error, line 36 raises when no asset matched (a body without "assets" gives
\* the empty list, line 30).  Every URL of the model is a non-empty string.
ResolveError(resp) ==
    IF resp.kind \in {"transport", "status", "badjson"} THEN "Network"
    ELSE IF FindAsset(resp.assets) = None THEN "NotFound"
    ELSE "none"

\* The value returned: the URL (line 38), or None after the except branch
\* printed the error (lines 40-42).  err is what line 41 printed.
DownloadLatestRelease(resp) ==
    IF ResolveError(resp) = "none"
    THEN [url |-> FindAsset(resp.assets), err |-> "none"]
    ELSE [url |-> None, err |-> ResolveError(resp)]

----------------------------------------------------------------------------
(* unzip_file, lines 88-102 *)

\* zipfile.ZipFile(zip_path, "r") opens a file only when it ends with the
\* end-of-central-directory record.
IsZip(f) == f # <<>> /\ f[Len(f)].kind = "eocd"

ZipEntries(f) == SelectSeq(f, LAMBDA b : b.kind = "entry")

\* extractall's member path: empty, "." and ".." components are dropped.
SanitizeName(name) == SelectSeq(name, LAMBDA x : x \notin {"", ".", ".."})

\* Whether a relative path, joined to the destination, leaves it.
RECURSIVE Escapes(_, _)
Escapes(path, depth) ==
    IF path = <<>> THEN FALSE
    ELSE IF Head(path) = ".."
         THEN depth = 0 \/ Escapes(Tail(path), depth - 1)
         ELSE Escapes(Tail(path), depth + 1)

\* Line 100: every entry is written below destination_dir, replacing a file
\* already at that path.
RECURSIVE ExtractAll(_, _, _)
\* ExtractAll that never overwrites: a file already at the path is kept and
\* the entry is written next to it under a new name.
ExtractAllKeepBoth(entries, files, out) ==
    IF entries = <<>> THEN [destFiles |-> files, outside |-> out]
    ELSE LET e == Head(entries)
             target == SanitizeName(e.name)
             free == IF \E f \in files : f.path = target
                     THEN Append(target, "copy") ELSE target
         IN  ExtractAll(Tail(entries),
                        {f \in files : f.path # free}
                            \cup {[path |-> free, data |-> e.data]},
                        out)

ExtractAll(entries, files, out) ==
    IF entries = <<>> THEN [destFiles |-> files, outside |-> out]
    ELSE LET e == Head(entries)
             target == SanitizeName(e.name)
         IN  IF Escapes(target, 0)
             THEN ExtractAll(Tail(entries), files, out \cup {target})
             ELSE ExtractAll(Tail(entries),
                             {f \in files : f.path # target}
                                \cup {[path |-> target, data |-> e.data]},
                             out)

\* UnzipFile without the test of lines 94-95: the directory is made first and
\* the missing file is only met when it is opened.
UnzipFileNoCheck(zip, dex, files, out) ==
    IF ~zip.exists
    THEN [err |-> "MissingSource", dirExists |-> TRUE, destFiles |-> files, outside |-> out]
    ELSE IF ~IsZip(zip.data)
    THEN [err |-> "Corrupt", dirExists |-> TRUE, destFiles |-> files, outside |-> out]
    ELSE LET x == ExtractAll(ZipEntries(zip.data), files, out)
         IN  [err |-> "none", dirExists |-> TRUE,
              destFiles |-> x.destFiles, outside |-> x.outside]

\* unzip_file(zip_path, destination_dir) on a file system state: the error
\* raised ("none" if none) and the file system it leaves.
UnzipFile(zip, dex, files, out) ==
    IF ~zip.exists
    THEN [err |-> "MissingSource", dirExists |-> dex, destFiles |-> files, outside |-> out]
    ELSE IF ~IsZip(zip.data)
    THEN [err |-> "Corrupt", dirExists |-> TRUE, destFiles |-> files, outside |-> out]
    ELSE LET x == ExtractAll(ZipEntries(zip.data), files, out)
         IN  [err |-> "none", dirExists |-> TRUE,
              destFiles |-> x.destFiles, outside |-> x.outside]

----------------------------------------------------------------------------
(* The file system and the runs *)

Terminal == {"done", "failed", "crashed"}

\* Line 49: pth.tipitaka_translation_db_tarball.exists()
CacheExists == cache.exists

Hole == [kind |-> "hole", name |-> <<>>, data |-> "", size |-> 1]

Max(a, b) == IF a >= b THEN a ELSE b

\* WriteAt with the file opened anew for every chunk: the chunk replaces
\* what was written before.
WriteTruncating(f, off, chunk) == chunk

\* f.write(chunk) through a file object whose offset is off.
WriteAt(f, off, chunk) ==
    [i \in 1..Max(Len(f), off + Len(chunk)) |->
        IF i > off /\ i <= off + Len(chunk) THEN chunk[i - off]
        ELSE IF i <= Len(f) THEN f[i]
        ELSE Hole]

Line(who, e) == [by |-> who, err |-> e]

Count(p, what) == [calls EXCEPT ![p][what] = @ + 1]

\* MainExcept that tries the whole run again instead of returning.
MainExceptRetry(p, printed, e) ==
    /\ pc' = [pc EXCEPT ![p] = "check_cache"]
    /\ report' = [report EXCEPT ![p] = <<Line("main", e)>>]
    /\ UNCHANGED result

\* Lines 121-125: main's except clause prints the exception it caught, and
\* main returns None.  printed is what the raising function printed before.
MainExcept(p, printed, e) ==
    /\ pc' = [pc EXCEPT ![p] = "failed"]
    /\ report' = [report EXCEPT ![p] =
                    @ \o printed \o <<Line("main", "An error occurred during extraction"),
                                      Line("main", e)>>]
    /\ result' = [result EXCEPT ![p] = None]

\* ensure_zip_exists is left, by return or by raise: its locals are gone.
Leave(p) ==
    /\ download_url' = [download_url EXCEPT ![p] = None]
    /\ stream' = [stream EXCEPT ![p] = <<>>]
    /\ pos' = [pos EXCEPT ![p] = 0]
    /\ progress' = [progress EXCEPT ![p] = 0]
    /\ total_size' = [total_size EXCEPT ![p] = 0]

\* The snags a position of the download loop can hit: iter_content raises
\* while body is still due, f.write raises on the chunk it was given.
StreamErrors(p) ==
    IF Head(stream[p]) # <<>> THEN {"Network", "Io"} ELSE {"Network"}

InitCaches == {NoFile, File(<<Junk>>)} \cup {File(d) : d \in Payloads}

StaleFiles == {[path |-> <<"c.txt">>, data |-> "old"]}

InitPipe ==
    /\ dirExists \in BOOLEAN
    /\ destFiles \in {{}, StaleFiles}
    /\ destFiles # {} => dirExists
    /\ outside = {}
    /\ pc = [p \in Runs |-> "idle"]
    /\ hit = [p \in Runs |-> Unset]
    /\ download_url = [p \in Runs |-> None]
    /\ stream = [p \in Runs |-> <<>>]
    /\ pos = [p \in Runs |-> 0]
    /\ progress = [p \in Runs |-> 0]
    /\ total_size = [p \in Runs |-> 0]
    /\ calls = [p \in Runs |-> [api |-> 0, dl |-> 0, open |-> 0, unzip |-> 0]]
    /\ origin = [p \in Runs |-> "none"]
    /\ report = [p \in Runs |-> <<>>]
    /\ result = [p \in Runs |-> Unset]

Init ==
    /\ InitPipe
    /\ cache \in InitCaches
    /\ release_data = NoResponse
    /\ resolved = Unresolved

\* Lines 105-111 and 128-129: main() is called; runs follow one another.
Start(p) ==
    /\ pc[p] = "idle"
    /\ \A q \in Runs \ {p} : pc[q] \in Terminal \cup {"idle"}
    /\ \A q \in Runs : q < p => pc[q] # "idle"
    /\ pc' = [pc EXCEPT ![p] = "check_cache"]
    /\ UNCHANGED <<cache, dirExists, destFiles, outside, hit, download_url, stream,
                   pos, progress, total_size, calls, origin, report, result,
                   release_data, resolved>>

\* CheckCache with the test of line 49 lost: the download is always made.
CheckCacheAlwaysFetch(p) ==
    /\ pc[p] = "check_cache"
    /\ hit' = [hit EXCEPT ![p] = IF cache.exists THEN "hit" ELSE "miss"]
    /\ pc' = [pc EXCEPT ![p] = "resolve"]
    /\ UNCHANGED <<cache, dirExists, destFiles, outside, download_url, stream,
                   pos, progress, total_size, calls, origin, report, result,
                   release_data, resolved>>

\* Line 49: with the file there ensure_zip_exists returns at once.
CheckCache(p) ==
    /\ pc[p] = "check_cache"
    /\ IF CacheExists
       THEN /\ hit' = [hit EXCEPT ![p] = "hit"]
            /\ pc' = [pc EXCEPT ![p] = "unzip"]
       ELSE /\ hit' = [hit EXCEPT ![p] = "miss"]
            /\ pc' = [pc EXCEPT ![p] = "resolve"]
    /\ UNCHANGED <<cache, dirExists, destFiles, outside, download_url, stream,
                   pos, progress, total_size, calls, origin, report, result,
                   release_data, resolved>>

\* Lines 53-55: download_latest_release(), and the raise when it gave None.
Resolve(p) ==
    /\ pc[p] = "resolve"
    /\ \E resp \in ApiResponses :
         LET r == DownloadLatestRelease(resp)
         IN  /\ calls' = Count(p, "api")
             /\ IF r.url = None
                THEN /\ origin' = [origin EXCEPT ![p] = r.err]
                     /\ MainExcept(p, <<Line("download_latest_release", r.err)>>,
                                   "Failed to get download URL")
                     /\ UNCHANGED download_url
                ELSE /\ download_url' = [download_url EXCEPT ![p] = r.url]
                     /\ pc' = [pc EXCEPT ![p] = "request"]
                     /\ UNCHANGED <<origin, report, result>>
    /\ UNCHANGED <<cache, dirExists, destFiles, outside, hit, stream,
                   pos, progress, total_size, release_data, resolved>>

\* Lines 62-65: the streamed GET answers; the body will come in some chunking,
\* with or without a content-length header.
RequestOk(p) ==
    /\ pc[p] = "request"
    /\ \E c \in Chunkings(PayloadOf(download_url[p])), known \in BOOLEAN :
         /\ stream' = [stream EXCEPT ![p] = c]
         /\ total_size' = [total_size EXCEPT ![p] =
                            IF known THEN Bytes(PayloadOf(download_url[p])) ELSE 0]
    /\ calls' = Count(p, "dl")
    /\ pc' = [pc EXCEPT ![p] = "open"]
    /\ UNCHANGED <<cache, dirExists, destFiles, outside, hit, download_url,
                   pos, progress, origin, report, result, release_data, resolved>>

\* RequestFail with a retry: the request is issued again instead of raising.
RequestFailRetry(p) ==
    /\ pc[p] = "request"
    /\ calls[p].dl < 2
    /\ calls' = Count(p, "dl")
    /\ UNCHANGED <<cache, dirExists, destFiles, outside, pc, hit, download_url, stream,
                   pos, progress, total_size, origin, report, result,
                   release_data, resolved>>

\* Lines 62-63, 83-85: requests.get or raise_for_status raises; it is printed
\* and raised again.
RequestFail(p) ==
    /\ pc[p] = "request"
    /\ calls' = Count(p, "dl")
    /\ origin' = [origin EXCEPT ![p] = "Network"]
    /\ MainExcept(p, <<Line("ensure_zip_exists", "Network")>>, "Network")
    /\ Leave(p)
    /\ UNCHANGED <<cache, dirExists, destFiles, outside, hit, release_data, resolved>>

\* Lines 71-75: mkdir, then open(..., "wb") creates the file or empties it.
Open(p) ==
    /\ pc[p] = "open"
    /\ dirExists' = TRUE
    /\ cache' = File(<<>>)
    /\ pos' = [pos EXCEPT ![p] = 0]
    /\ progress' = [progress EXCEPT ![p] = 0]
    /\ calls' = Count(p, "open")
    /\ pc' = [pc EXCEPT ![p] = "stream"]
    /\ UNCHANGED <<destFiles, outside, hit, download_url, stream, total_size,
                   origin, report, result, release_data, resolved>>

\* Lines 71-73, 83-85: mkdir or open raises OSError.
OpenFail(p) ==
    /\ pc[p] = "open"
    /\ dirExists' \in {dirExists, TRUE}
    /\ origin' = [origin EXCEPT ![p] = "Io"]
    /\ MainExcept(p, <<Line("ensure_zip_exists", "Io")>>, "Io")
    /\ Leave(p)
    /\ UNCHANGED <<cache, destFiles, outside, hit, calls, release_data, resolved>>

\* Lines 76-78: the loop takes the next chunk; a non-empty one is written to
\* the file, an empty one is passed over.
ReadChunk(p) ==
    /\ pc[p] = "stream"
    /\ stream[p] # <<>>
    /\ LET chunk == Head(stream[p])
       IN  IF chunk # <<>>
           THEN /\ cache' = File(WriteAt(cache.data, pos[p], chunk))
                /\ pos' = [pos EXCEPT ![p] = @ + Len(chunk)]
                /\ pc' = [pc EXCEPT ![p] = "advance"]
                /\ UNCHANGED stream
           ELSE /\ stream' = [stream EXCEPT ![p] = Tail(@)]
                /\ UNCHANGED <<cache, pos, pc>>
    /\ UNCHANGED <<dirExists, destFiles, outside, hit, download_url, total_size,
                   progress, calls, origin, report, result, release_data, resolved>>

\* Advance counting the chunks instead of their bytes.
AdvanceByOne(p) ==
    /\ pc[p] = "advance"
    /\ progress' = [progress EXCEPT ![p] = @ + 1]
    /\ stream' = [stream EXCEPT ![p] = Tail(@)]
    /\ pc' = [pc EXCEPT ![p] = "stream"]
    /\ UNCHANGED <<cache, dirExists, destFiles, outside, hit, download_url, pos,
                   total_size, calls, origin, report, result, release_data, resolved>>

\* Line 79: progress.update(task, advance=len(chunk)) for the chunk written.
Advance(p) ==
    /\ pc[p] = "advance"
    /\ progress' = [progress EXCEPT ![p] = @ + Bytes(Head(stream[p]))]
    /\ stream' = [stream EXCEPT ![p] = Tail(@)]
    /\ pc' = [pc EXCEPT ![p] = "stream"]
    /\ UNCHANGED <<cache, dirExists, destFiles, outside, hit, download_url, pos,
                   total_size, calls, origin, report, result, release_data, resolved>>

\* StreamFail with the raise of line 85 lost: the error is printed only.
StreamFailSwallowed(p) ==
    /\ pc[p] = "stream"
    /\ stream[p] # <<>>
    /\ \E e \in StreamErrors(p) :
         /\ origin' = [origin EXCEPT ![p] = e]
         /\ report' = [report EXCEPT ![p] = Append(@, Line("ensure_zip_exists", e))]
    /\ pc' = [pc EXCEPT ![p] = "unzip"]
    /\ UNCHANGED <<cache, dirExists, destFiles, outside, hit, download_url, stream,
                   pos, progress, total_size, calls, result, release_data, resolved>>

\* StreamFail with a cleanup: the partial file is removed before the raise.
StreamFailCleanup(p) ==
    /\ pc[p] = "stream"
    /\ stream[p] # <<>>
    /\ \E e \in StreamErrors(p) :
         /\ origin' = [origin EXCEPT ![p] = e]
         /\ MainExcept(p, <<Line("ensure_zip_exists", e)>>, e)
    /\ cache' = NoFile
    /\ Leave(p)
    /\ UNCHANGED <<dirExists, destFiles, outside, hit, calls, release_data, resolved>>

\* Lines 76-78, 83-85: the loop raises with body still due; the with block
\* closes the file where it stands, the error is printed and raised again.
StreamFail(p) ==
    /\ pc[p] = "stream"
    /\ stream[p] # <<>>
    /\ \E e \in StreamErrors(p) :
         /\ origin' = [origin EXCEPT ![p] = e]
         /\ MainExcept(p, <<Line("ensure_zip_exists", e)>>, e)
    /\ Leave(p)
    /\ UNCHANGED <<cache, dirExists, destFiles, outside, hit, calls,
                   release_data, resolved>>

\* Lines 76, 81: the body is exhausted; ensure_zip_exists returns.
StreamEnd(p) ==
    /\ pc[p] = "stream"
    /\ stream[p] = <<>>
    /\ pc' = [pc EXCEPT ![p] = "unzip"]
    /\ Leave(p)
    /\ UNCHANGED <<cache, dirExists, destFiles, outside, hit, calls, origin, report,
                   result, release_data, resolved>>

\* Lines 116-125: unzip_file, then main returns.
Unzip(p) ==
    /\ pc[p] = "unzip"
    /\ LET r == UnzipFile(cache, dirExists, destFiles, outside)
       IN  /\ dirExists' = r.dirExists
           /\ destFiles' = r.destFiles
           /\ outside' = r.outside
           /\ IF r.err = "none"
              THEN /\ pc' = [pc EXCEPT ![p] = "done"]
                   /\ result' = [result EXCEPT ![p] = None]
                   /\ UNCHANGED <<origin, report>>
              ELSE /\ origin' = [origin EXCEPT ![p] = r.err]
                   /\ MainExcept(p, <<>>, r.err)
    /\ calls' = Count(p, "unzip")
    /\ UNCHANGED <<cache, hit, download_url, stream, pos, progress, total_size,
                   release_data, resolved>>

Next ==
    \E p \in Runs :
        \/ Start(p)
        \/ CheckCache(p)
        \/ Resolve(p)
        \/ RequestOk(p)
        \/ RequestFail(p)
        \/ Open(p)
        \/ OpenFail(p)
        \/ ReadChunk(p)
        \/ Advance(p)
        \/ StreamFail(p)
        \/ StreamEnd(p)
        \/ Unzip(p)

Spec == Init /\ [][Next]_vars

\* What a run that was started does next.  A started process keeps running:
\* each blocking call returns or raises (timeouts of lines 25 and 62, a finite
\* body), so a run is not held back for ever.
Step(p) ==
    \/ CheckCache(p)
    \/ Resolve(p)
    \/ RequestOk(p)
    \/ RequestFail(p)
    \/ Open(p)
    \/ OpenFail(p)
    \/ ReadChunk(p)
    \/ Advance(p)
    \/ StreamFail(p)
    \/ StreamEnd(p)
    \/ Unzip(p)

SpecFair == Spec /\ \A p \in Runs : WF_vars(Step(p))

----------------------------------------------------------------------------
(* Invocations of main() that run at the same time on the same paths *)

InitConc ==
    /\ InitPipe
    /\ cache = NoFile
    /\ destFiles = {}
    /\ release_data = NoResponse
    /\ resolved = Unresolved

\* Lines 105-111 and 128-129: main() is called while others may be running.
StartConc(p) ==
    /\ pc[p] = "idle"
    /\ pc' = [pc EXCEPT ![p] = "check_cache"]
    /\ UNCHANGED <<cache, dirExists, destFiles, outside, hit, download_url, stream,
                   pos, progress, total_size, calls, origin, report, result,
                   release_data, resolved>>

NextConc ==
    \E p \in Runs :
        \/ StartConc(p)
        \/ CheckCache(p)
        \/ Resolve(p)
        \/ RequestOk(p)
        \/ RequestFail(p)
        \/ Open(p)
        \/ OpenFail(p)
        \/ ReadChunk(p)
        \/ Advance(p)
        \/ StreamFail(p)
        \/ StreamEnd(p)
        \/ Unzip(p)

SpecConc == InitConc /\ [][NextConc]_vars

----------------------------------------------------------------------------
(* download_latest_release on its own, on every API response *)

InitResolve ==
    /\ InitPipe
    /\ cache = NoFile
    /\ dirExists = FALSE
    /\ destFiles = {}
    /\ release_data \in ApiResponses
    /\ resolved = Unresolved

CallResolve ==
    /\ resolved = Unresolved
    /\ resolved' = DownloadLatestRelease(release_data)
    /\ UNCHANGED <<release_data, cache, dirExists, destFiles, outside, pc, hit,
                   download_url, stream, pos, progress, total_size, calls, origin,
                   report, result>>

NextResolve == CallResolve

SpecResolve == InitResolve /\ [][NextResolve]_vars

----------------------------------------------------------------------------
(* unzip_file on its own, on every archive file and destination *)

EntryNames == {<<"a", "b.txt">>, <<"c.txt">>, <<"..", "escape.txt">>, <<"..", "c.txt">>}

EntryPool == {Entry(n, d) : n \in EntryNames, d \in {"hello", "world"}}

EntryLists == UNION {[1..n -> EntryPool] : n \in 0..MaxEntries}

\* Whole archives, archives cut before their central directory, no file.
ArchiveInputs ==
    {NoFile} \cup {File(Append(e, EOCD)) : e \in EntryLists}
             \cup {File(e) : e \in EntryLists}

InitExtract ==
    /\ InitPipe
    /\ cache \in ArchiveInputs
    /\ release_data = NoResponse
    /\ resolved = Unresolved

\* unzip_file(zip_path, destination_dir), called again and again; origin[1]
\* holds what the last call raised.
CallUnzip ==
    /\ calls[1].unzip < MaxExtracts
    /\ LET r == UnzipFile(cache, dirExists, destFiles, outside)
       IN  /\ dirExists' = r.dirExists
           /\ destFiles' = r.destFiles
           /\ outside' = r.outside
           /\ origin' = [origin EXCEPT ![1] = r.err]
    /\ calls' = Count(1, "unzip")
    /\ UNCHANGED <<cache, pc, hit, download_url, stream, pos, progress, total_size,
                   report, result, release_data, resolved>>

NextExtract == CallUnzip

SpecExtract == InitExtract /\ [][NextExtract]_vars

----------------------------------------------------------------------------
(* Properties *)

Last(s) == s[Len(s)]

IsPrefix(s, t) == Len(s) <= Len(t) /\ SubSeq(t, 1, Len(s)) = s

IsTruncated(f) == \E d \in Payloads : IsPrefix(f, d) /\ f # d

HasUnsafeEntry(f) ==
    \E i \in DOMAIN f : f[i].kind = "entry" /\ Escapes(f[i].name, 0)

ResolveFailed(p) ==
    pc[p] = "failed" /\ calls[p].api = 1 /\ calls[p].dl = 0

FetchFailed(p) ==
    pc[p] = "failed" /\ calls[p].dl = 1 /\ calls[p].unzip = 0

\* The steps a run may take one after the other.
Edges ==
    {<<"idle", "check_cache">>, <<"check_cache", "unzip">>,
     <<"check_cache", "resolve">>, <<"resolve", "request">>,
     <<"resolve", "failed">>, <<"request", "open">>, <<"request", "failed">>,
     <<"open", "stream">>, <<"open", "failed">>, <<"stream", "advance">>,
     <<"advance", "stream">>, <<"stream", "unzip">>,
     <<"stream", "failed">>, <<"unzip", "done">>, <<"unzip", "failed">>}

\* C1: once a fetch of this system has written the cache file, extraction is
\* performed only when the file holds every chunk of the downloaded payload.
C1_ExtractOnlyComplete ==
    \A p \in Runs :
        (calls[p].unzip > 0 /\ \E q \in Runs : calls[q].open > 0)
            => cache.exists /\ cache.data \in Payloads

\* C2: a run that found a file at the cache path, whatever its content, has
\* queried no release API, issued no download request, not opened the cache
\* file for writing, and went from the test straight to extraction.
C2_CacheSkip ==
    \A p \in Runs :
        hit[p] = "hit" =>
            /\ calls[p].api = 0
            /\ calls[p].dl = 0
            /\ calls[p].open = 0
            /\ pc[p] \in {"unzip", "done", "failed"}
            /\ pc[p] \in {"done", "failed"} => calls[p].unzip = 1

C2_Witness ==
    \E p \in Runs :
        /\ hit[p] = "hit"
        /\ pc[p] \in {"done", "failed"}
        /\ calls[p].unzip = 1
        /\ cache.data \notin Payloads

\* C3: on a cache miss the steps run in the order resolve, fetch, extract,
\* each starting only after the one before completed (one API call before the
\* download request, the whole body read before extraction); a run in which
\* resolve or fetch failed is FAILED and has not invoked extract.
C3_OrderOnMiss ==
    /\ [](\A p \in Runs :
            /\ hit[p] = "miss" =>
                /\ pc[p] = "resolve" => calls[p] = [api |-> 0, dl |-> 0, open |-> 0, unzip |-> 0]
                /\ pc[p] = "request" => calls[p] = [api |-> 1, dl |-> 0, open |-> 0, unzip |-> 0]
                /\ pc[p] = "open" => calls[p] = [api |-> 1, dl |-> 1, open |-> 0, unzip |-> 0]
                /\ pc[p] \in {"stream", "advance"} =>
                        calls[p] = [api |-> 1, dl |-> 1, open |-> 1, unzip |-> 0]
                /\ pc[p] = "unzip" => calls[p] = [api |-> 1, dl |-> 1, open |-> 1, unzip |-> 0]
                /\ calls[p].unzip > 0 => calls[p] = [api |-> 1, dl |-> 1, open |-> 1, unzip |-> 1]
            /\ origin[p] \in {"NotFound", "Network", "Io"} =>
                pc[p] = "failed" /\ calls[p].unzip = 0)
    /\ [][\A p \in Runs :
            /\ pc'[p] # pc[p] => <<pc[p], pc'[p]>> \in Edges
            /\ (pc[p] = "stream" /\ pc'[p] = "unzip") => stream[p] = <<>>]_vars

C3_Witness ==
    \E p, q \in Runs :
        /\ hit[p] = "miss" /\ pc[p] = "failed" /\ calls[p].dl = 1 /\ calls[p].unzip = 0
        /\ hit[q] = "miss" /\ pc[q] = "done"
        /\ calls[q] = [api |-> 1, dl |-> 1, open |-> 1, unzip |-> 1]

\* C4: extraction of an archive holding an entry whose path leaves the
\* destination directory fails with UnsafeEntry, and writes no file outside
\* the destination directory.
C4_UnsafeEntryRejected ==
    \A p \in Runs :
        (calls[p].unzip = 1 /\ IsZip(cache.data) /\ HasUnsafeEntry(cache.data))
            => pc[p] = "failed" /\ origin[p] = "UnsafeEntry" /\ outside = {}

\* C5: a fetch that failed with a Network error has not created, truncated or
\* appended to the destination file.
C5_NetworkBeforeWrite ==
    \A p \in Runs :
        (FetchFailed(p) /\ origin[p] = "Network") => calls[p].open = 0

\* C6: a fetch that failed after it opened the destination file leaves a
\* truncated file at the cache path, and every later run takes that file as a
\* cache hit: it makes no API call and no download request, does not open the
\* file for writing, goes to extraction and ends FAILED there with Corrupt.
C6_TruncatedThenHit ==
    \A p \in Runs :
        (pc[p] = "failed" /\ calls[p].open = 1) =>
            /\ cache.exists
            /\ IsTruncated(cache.data)
            /\ \A q \in Runs : q > p =>
                /\ hit[q] \in {Unset, "hit"}
                /\ calls[q].api = 0 /\ calls[q].dl = 0 /\ calls[q].open = 0
                /\ pc[q] \in {"idle", "check_cache", "unzip", "failed"}
                /\ pc[q] = "failed" => origin[q] = "Corrupt" /\ calls[q].unzip = 1

C6_Witness ==
    \E p, q \in Runs :
        /\ q > p
        /\ pc[p] = "failed" /\ calls[p].open = 1
        /\ hit[q] = "hit" /\ pc[q] = "failed" /\ origin[q] = "Corrupt"

\* C7: no failure of resolve, fetch or extract leaves main as an exception;
\* the run ends FAILED and the error main reports is the originating one.
C7_OriginReported ==
    \A p \in Runs :
        /\ pc[p] # "crashed"
        /\ origin[p] # "none" =>
            /\ pc[p] = "failed"
            /\ Last(report[p]) = Line("main", origin[p])

\* C8: the value main returns for a run that ended FAILED differs from the
\* value it returns for a run that ended DONE.
C8_ResultDistinguishes ==
    \A p, q \in Runs :
        (pc[p] = "done" /\ pc[q] = "failed") => result[p] # result[q]

\* C9: download_latest_release gives NotFound when no asset of the list has
\* exactly the wanted name, and the download URL of the asset that has it when
\* exactly one does, wherever it stands in the list.
C9_ResolveByName ==
    LET assets == release_data.assets
        Matches == {i \in DOMAIN assets : assets[i].name = TargetName}
    IN  (resolved # Unresolved /\ release_data.kind \in {"ok", "noassets"}) =>
            /\ Matches = {} => resolved = [url |-> None, err |-> "NotFound"]
            /\ Cardinality(Matches) = 1 =>
                 \A i \in Matches :
                    resolved = [url |-> assets[i].browser_download_url, err |-> "none"]

C9_Witness ==
    /\ resolved # Unresolved
    /\ Len(release_data.assets) = 2
    /\ release_data.assets[1].name = "TIPITAKA-TRANSLATION-DATA.DB.ZIP"
    /\ release_data.assets[2].name = TargetName
    /\ resolved.url = release_data.assets[2].browser_download_url
    /\ resolved.url # release_data.assets[1].browser_download_url

\* C10: the error main reports for a failed resolution tells NotFound from
\* Network: two runs whose resolutions failed with different kinds get
\* different reports from main.
C10_KindReachesReport ==
    \A p, q \in Runs :
        (ResolveFailed(p) /\ ResolveFailed(q) /\ origin[p] # origin[q])
            => Last(report[p]) # Last(report[q])

\* C11: a run issues at most one request to the releases API and at most one
\* download request (and opens the file and calls unzip_file at most once);
\* a run that failed stays FAILED and makes no further call.
C11_NoRetry ==
    /\ [](\A p \in Runs :
            /\ calls[p].api <= 1
            /\ calls[p].dl <= 1
            /\ calls[p].open <= 1
            /\ calls[p].unzip <= 1)
    /\ [][\A p \in Runs :
            pc[p] \in {"done", "failed"} =>
                /\ pc'[p] = pc[p]
                /\ calls'[p] = calls[p]
                /\ origin'[p] = origin[p]]_vars

C11_Witness ==
    \E p, q \in Runs :
        /\ p < q
        /\ pc[p] = "failed" /\ origin[p] = "Network"
        /\ calls[p] = [api |-> 1, dl |-> 1, open |-> 0, unzip |-> 0]
        /\ pc[q] # "idle"

\* C12: during a fetch the reported amount never decreases, whatever the
\* chunk sizes (empty chunks included), and when the body is exhausted it
\* equals the size of the payload (and the content-length, when one was sent).
C12_ProgressMonotone ==
    /\ [][\A p \in Runs :
            (pc[p] \in {"stream", "advance"} /\ pc'[p] \in {"stream", "advance"})
                => progress'[p] >= progress[p]]_vars
    /\ [](\A p \in Runs :
            (pc[p] = "stream" /\ stream[p] = <<>>) =>
                /\ progress[p] = Bytes(PayloadOf(download_url[p]))
                /\ total_size[p] # 0 => progress[p] = total_size[p])

C12_Witness ==
    \E p \in Runs :
        /\ pc[p] = "stream"
        /\ stream[p] = <<>>
        /\ total_size[p] = 5
        /\ progress[p] = 5

\* C19: at each turn of the download loop the reported amount equals the
\* number of bytes written to the file; a non-empty chunk is written first
\* (the file is then ahead by that chunk's length) and then counted; an empty
\* chunk changes neither the file nor the amount; when the body is exhausted
\* the file holds the non-empty chunks in arrival order, i.e. the payload.
C19_ProgressIsBytesWritten ==
    /\ [](\A p \in Runs :
            /\ pc[p] = "stream" => progress[p] = Bytes(cache.data)
            /\ pc[p] = "advance" =>
                /\ Head(stream[p]) # <<>>
                /\ Bytes(cache.data) = progress[p] + Bytes(Head(stream[p]))
            /\ (pc[p] = "stream" /\ stream[p] = <<>>) =>
                cache.data = PayloadOf(download_url[p]))
    /\ [][\A p \in Runs :
            (pc[p] = "stream" /\ pc'[p] = "stream"
                /\ stream[p] # <<>> /\ stream'[p] # stream[p]) =>
                    /\ Head(stream[p]) = <<>>
                    /\ cache' = cache
                    /\ progress'[p] = progress[p]]_vars

C19_Witness ==
    \E p \in Runs :
        /\ pc[p] = "advance"
        /\ progress[p] = 2
        /\ Bytes(cache.data) = 4
        /\ Len(stream[p]) = 2

\* C13: unzip_file run a second time on the same archive and destination
\* changes nothing: the destination holds after two runs what it held after
\* one, and the second run ends as the first did.
C13_ExtractIdempotent ==
    [][calls[1].unzip >= 1 =>
        /\ destFiles' = destFiles
        /\ dirExists' = dirExists
        /\ outside' = outside
        /\ origin'[1] = origin[1]]_vars

C13_Witness ==
    /\ calls[1].unzip = 2
    /\ origin[1] = "none"
    /\ [path |-> <<"c.txt">>, data |-> "world"] \in destFiles
    /\ Cardinality(destFiles) = 2

\* C17: unzip_file called on a path where no file exists raises
\* MissingSource and leaves the file system as it was: the destination
\* directory is neither created nor changed.
C17_MissingSourceNoEffect ==
    [][(~cache.exists /\ calls'[1].unzip # calls[1].unzip) =>
        /\ origin'[1] = "MissingSource"
        /\ dirExists' = dirExists
        /\ destFiles' = destFiles
        /\ outside' = outside]_vars

C17_Witness ==
    /\ ~cache.exists
    /\ calls[1].unzip = 1
    /\ origin[1] = "MissingSource"
    /\ ~dirExists

\* C14: the cache file exists only through a fetch that completed (a run
\* whose fetch failed leaves no file behind), and once a run has created it no
\* later run opens it for writing.
C14_CacheLifecycle ==
    /\ \A p \in Runs :
        (pc[p] = "failed" /\ calls[p].open = 1 /\ calls[p].unzip = 0)
            => ~cache.exists
    /\ \A p, q \in Runs :
        (p < q /\ calls[p].open = 1) => calls[q].open = 0

\* C15: when two invocations ran at the same time, both downloaded and both
\* have finished, the cache file is exactly one complete payload (the last
\* writer's), not a mixture or a truncation of the two.
C15_LastWriterWins ==
    (\A p \in Runs : pc[p] \in {"done", "failed"} /\ calls[p].open = 1 /\ calls[p].unzip = 1)
        => cache.data \in Payloads

\* C16: an invocation that found the cache file present is at extraction
\* only with the file holding a complete payload, never with another
\* invocation still in the middle of its download.
C16_HitExtractsComplete ==
    \A q \in Runs :
        (hit[q] = "hit" /\ pc[q] = "unzip") =>
            /\ cache.data \in Payloads
            /\ \A p \in Runs \ {q} : pc[p] \notin {"stream", "advance"}

\* The states of the pipeline: START, CHECK_CACHE, RESOLVE, FETCH, EXTRACT
\* and the terminal ones, in their order.
Stage(x) ==
    CASE x = "idle" -> 0
      [] x = "check_cache" -> 1
      [] x = "resolve" -> 2
      [] x \in {"request", "open", "stream", "advance"} -> 3
      [] x = "unzip" -> 4
      [] OTHER -> 5

\* C18: every started run reaches DONE or FAILED; it never goes back to a
\* state of the pipeline it has left (so each is visited at most once) and
\* never leaves the terminal state it reached.
C18_Terminates ==
    /\ \A p \in Runs : (pc[p] = "check_cache") ~> (pc[p] \in {"done", "failed"})
    /\ [][\A p \in Runs :
            /\ Stage(pc'[p]) >= Stage(pc[p])
            /\ pc[p] \in {"done", "failed"} => pc'[p] = pc[p]]_vars

C18_Witness ==
    \E p, q \in Runs :
        /\ pc[p] = "failed" /\ origin[p] = "NotFound"
        /\ pc[q] = "done" /\ hit[q] = "miss"

====
